---- MODULE Spec2Model ----
(***************************************************************************)
(* A model of the Israel suicide data dashboard (src/main.py): the CSV     *)
(* tables it loads, the tables it keeps for the session, and one action    *)
(* per interaction (a rerun of main() with the widgets' values), which     *)
(* filters the tables to the year window and derives the structures the    *)
(* charts are drawn from.                                                  *)
(*                                                                         *)
(* A table is a sequence of rows; a row is a function from column names to *)
(* cells.  An integer cell is the integer; the two cells that are not      *)
(* numbers are NaN (pandas' missing value) and Junk (text that does not    *)
(* parse as a number).  A float result (a mean, a share, a difference) is  *)
(* a record [tag, n, d]: the exact rational n/d, or nan, inf, -inf.        *)
(***************************************************************************)
EXTENDS Integers, Sequences, FiniteSets, TLC

\* ------------------------------------------------------------------ bounds
\* The tables hold years 2015 .. 2015 + YearSpan.
YearSpan == 2

Years == 2015..(2015 + YearSpan)

\* ------------------------------------------------------------------- cells
\* pd.to_numeric(..., errors='coerce') turns an unparseable cell into NaN.
NaN == -1
\* A CSV cell whose text is not a number.
Junk == -2

IsNum(c) == c # NaN /\ c # Junk

\* pd.to_numeric(x, errors='coerce') on one cell.
ToNumeric(c) == IF c = Junk THEN NaN ELSE c

\* ------------------------------------------------------------------ floats
Num(n, d) == [tag |-> "num", n |-> n, d |-> d]
FNaN == [tag |-> "nan", n |-> 0, d |-> 1]
FInf == [tag |-> "inf", n |-> 0, d |-> 1]
FNegInf == [tag |-> "-inf", n |-> 0, d |-> 1]

IsFNum(x) == x.tag = "num"

\* A cell as a float.
OfCell(c) == IF IsNum(c) THEN Num(c, 1) ELSE FNaN

\* x - y on floats (nan absorbs; d > 0 is kept).
FSub(x, y) ==
    IF IsFNum(x) /\ IsFNum(y) THEN Num(x.n * y.d - y.n * x.d, x.d * y.d)
    ELSE IF x.tag = "nan" \/ y.tag = "nan" THEN FNaN
    ELSE IF IsFNum(x) THEN (IF y.tag = "inf" THEN FNegInf ELSE FInf)
    ELSE IF IsFNum(y) THEN x
    ELSE IF x.tag = y.tag THEN FNaN ELSE x

\* x + y on floats.
FAdd(x, y) ==
    IF IsFNum(x) /\ IsFNum(y) THEN Num(x.n * y.d + y.n * x.d, x.d * y.d)
    ELSE IF x.tag = "nan" \/ y.tag = "nan" THEN FNaN
    ELSE IF IsFNum(x) THEN y
    ELSE IF IsFNum(y) THEN x
    ELSE IF x.tag = y.tag THEN x ELSE FNaN

\* x == y on floats: nan equals nothing, two numbers by cross-multiplying.
FEq(x, y) ==
    IF IsFNum(x) /\ IsFNum(y) THEN x.n * y.d = y.n * x.d
    ELSE x.tag # "nan" /\ x.tag = y.tag

\* --------------------------------------------------------------- sequences
RECURSIVE SeqOfSet(_)
\* The elements of a set of integers in ascending order: sorted(...).
SeqOfSet(S) ==
    IF S = {} THEN <<>>
    ELSE LET m == CHOOSE x \in S : \A y \in S : x <= y
         IN <<m>> \o SeqOfSet(S \ {m})

RECURSIVE Concat(_)
\* The concatenation of a sequence of sequences.
Concat(ss) == IF ss = <<>> THEN <<>> ELSE Head(ss) \o Concat(Tail(ss))

Range(s) == {s[i] : i \in DOMAIN s}

Reverse(s) == [i \in DOMAIN s |-> s[Len(s) + 1 - i]]

\* series.max() / series.min() of the year column; NaN on an empty column.
ColMax(t, c) ==
    LET S == {t[i][c] : i \in {j \in DOMAIN t : IsNum(t[j][c])}}
    IN IF S = {} THEN NaN ELSE CHOOSE x \in S : \A y \in S : y <= x

ColMin(t, c) ==
    LET S == {t[i][c] : i \in {j \in DOMAIN t : IsNum(t[j][c])}}
    IN IF S = {} THEN NaN ELSE CHOOSE x \in S : \A y \in S : x <= y

RECURSIVE SumCount(_, _, _, _, _)
\* The sum and the count of the numbers among the first i cells of column c.
SumCount(t, c, i, sum, count) ==
    IF i = 0 THEN <<sum, count>>
    ELSE IF IsNum(t[i][c]) THEN SumCount(t, c, i - 1, sum + t[i][c], count + 1)
    ELSE SumCount(t, c, i - 1, sum, count)

MeanOf(sc) == IF sc[2] = 0 THEN FNaN ELSE Num(sc[1], sc[2])

\* series.mean(): the mean of the column's numbers, NaN when it has none.
Mean(t, c) == MeanOf(SumCount(t, c, Len(t), 0, 0))

\* ------------------------------------------------------- year-range filter
\* A window whose upper bound is not applied.
InWindowFrom(y, s, e) == IsNum(y) /\ y >= s

\* The comparison of one year cell with the window; a NaN year compares False.
InWindow(y, s, e) == IsNum(y) /\ y >= s /\ y <= e

\* A filter that returns the rows of the mask last row first.
YearFilterReversed(t, s, e) == Reverse(SelectSeq(t, LAMBDA r : InWindow(r["year"], s, e)))

\* df[(df['year'] >= start_year) & (df['year'] <= end_year)]: a new table
\* with the rows of the mask, in the order of df.
YearFilter(t, s, e) == SelectSeq(t, LAMBDA r : InWindow(r["year"], s, e))

\* A year column with a cell of text is read as text; its comparison with the
\* numbers of the slider raises TypeError.
YearIsText(t) == \E i \in DOMAIN t : t[i]["year"] = Junk

\* df[df[c] == v]
WhereEq(t, c, v) == SelectSeq(t, LAMBDA r : r[c] = v)

\* df['year'] = pd.to_numeric(df['year'], errors='coerce')
CoerceYear(t) == [i \in DOMAIN t |-> [t[i] EXCEPT !["year"] = ToNumeric(@)]]

\* stable sort of the rows by year: df.sort_values(by='year') (the tables here
\* are short enough for numpy's sort to keep equal years in order).
RECURSIVE SortByYear(_)
SortByYear(t) ==
    IF t = <<>> THEN <<>>
    ELSE LET m == ColMin(t, "year")
         IN WhereEq(t, "year", m) \o SortByYear(SelectSeq(t, LAMBDA r : r["year"] # m))

\* ------------------------------------------------------------ column sets
\* age_cols of the suicides table, in the declared order.
AgeCols == <<"<14", "15-17", "18-21", "22-24", "25-44", "45-64", "65-74", "75+">>

\* The attempts table's column for each suicides age group: age_map, inverted
\* the way the loop over age_map.items() inverts it.
AttemptColOf(g) == IF g = "<14" THEN "10-14" ELSE g

AttemptAgeCols == [i \in DOMAIN AgeCols |-> AttemptColOf(AgeCols[i])]

\* months of display_time_trends.
Months == <<"jan", "feb", "mar", "apr", "may", "jun", "jul", "aug", "sep", "oct", "nov", "dec">>

\* The month columns as the CSV files name them.
FileMonths == <<"Jan", "Feb", "Mar", "Apr", "May", "Jun", "Jul", "Aug", "Sep", "Oct", "Nov", "Dec">>

\* col.lower() on the column names of the monthly files.
Lower ==
    [c \in {"Year"} \cup Range(FileMonths) |->
        IF c = "Year" THEN "year"
        ELSE Months[CHOOSE i \in DOMAIN FileMonths : FileMonths[i] = c]]

\* The column of the file that a lowercase name comes from.
FileColumn == [c \in {Lower[k] : k \in DOMAIN Lower} |-> CHOOSE k \in DOMAIN Lower : Lower[k] = c]

\* df.columns = [col.lower() for col in df.columns]
LowerColumns(t) ==
    [i \in DOMAIN t |-> [c \in {Lower[k] : k \in DOMAIN t[i]} |-> t[i][FileColumn[c]]]]

\* ------------------------------------------------- the CSV files' contents
\* 'Suicides per Gender.csv'
GenderRow(y) ==
    LET m == 300 - 7 * (y - 2015)
        w == 90 + 4 * (y - 2015)
    IN [year |-> y, men_num |-> m, women_num |-> w, total_num |-> m + w,
        total_rate |-> 50 - (y - 2015), men_rate |-> 80 - 2 * (y - 2015), women_rate |-> 20]

\* One row per chosen year, ascending.
GenderFile(Y) == LET ys == SeqOfSet(Y) IN [i \in DOMAIN ys |-> GenderRow(ys[i])]

GenderFiles == {GenderFile(Y) : Y \in SUBSET Years \ {{}}}

DefaultGender == GenderFile(Years)

\* The functions on the years that differ from [y |-> dflt] in at most one year,
\* where they take a value of `others`.
OneOff(dflt, others) ==
    {[y \in Years |-> dflt]} \cup
    {[y \in Years |-> IF y = z THEN p ELSE dflt] : z \in Years, p \in others}

\* 'Suicides - Age&Gender.csv': per year no row, the 'all' row, the 'men' row
\* or both; a file may end with a row whose year is not a number.
AgeAll(y, c) ==
    IF c = "<14" THEN 43
    ELSE IF c = "15-17" THEN 40 + 3 * (y - 2015)
    ELSE IF c = "18-21" THEN 43 - 3 * (y - 2015)
    ELSE 0

AgeMen(y, c) ==
    IF c = "<14" THEN 20
    ELSE IF c = "15-17" THEN 25 + (y - 2015)
    ELSE IF c = "18-21" THEN 30 - 2 * (y - 2015)
    ELSE 0

AgeRow(y, g) ==
    [c \in {"year", "group", "total"} \cup Range(AgeCols) |->
        IF c = "year" THEN y
        ELSE IF c = "group" THEN g
        ELSE IF c = "total" THEN (IF g = "all" THEN 126 ELSE 75)
        ELSE IF g = "all" THEN AgeAll(y, c) ELSE AgeMen(y, c)]

AgeRowsOfYear(y, p) ==
    IF p = "both" THEN <<AgeRow(y, "all"), AgeRow(y, "men")>>
    ELSE IF p = "none" THEN <<>>
    ELSE <<AgeRow(y, p)>>

AgeFile(f) == LET ys == SeqOfSet(Years) IN Concat([i \in DOMAIN ys |-> AgeRowsOfYear(ys[i], f[ys[i]])])

AgeFiles ==
    {AgeFile(f) : f \in OneOff("both", {"none", "all", "men"})}
    \cup {AgeFile([y \in Years |-> "both"]) \o <<AgeRow(Junk, "all")>>}

DefaultAge == AgeFile([y \in Years |-> "both"])

\* 'Attempts - Age&Gender.csv': per year no row, or the 'all' and the 'men'
\* row; the file may lack the '10-14' column.
AttemptRow(y, g, cols) ==
    [c \in {"year", "group"} \cup cols |->
        IF c = "year" THEN y
        ELSE IF c = "group" THEN g
        ELSE IF g = "all" THEN 10 * AgeAll(y, IF c = "10-14" THEN "<14" ELSE c)
        ELSE 10 * AgeMen(y, IF c = "10-14" THEN "<14" ELSE c)]

AttemptFile(Y, cols) ==
    LET ys == SeqOfSet(Y)
    IN Concat([i \in DOMAIN ys |-> <<AttemptRow(ys[i], "all", cols), AttemptRow(ys[i], "men", cols)>>])

AttemptFiles ==
    {AttemptFile({y \in Years : f[y]}, cols) :
        f \in OneOff(TRUE, {FALSE}),
        cols \in {Range(AttemptAgeCols), Range(AttemptAgeCols) \ {"10-14"}}}

DefaultAttempts == AttemptFile(Years, Range(AttemptAgeCols))

\* 'Suicides - Ethnic Groups.csv' and 'Attempts - Ethnic Groups.csv': per year
\* no row or one row per (ethnicity, group); the rows of a file may come in
\* descending year order.
EthnicRow(y, eth, g) ==
    [year |-> y, ethnicity |-> eth, group |-> g,
     total |-> (IF eth = "Arabs" THEN 40 ELSE 300) + (IF g = "men" THEN 100 ELSE 0) + (y - 2015)]

EthnicRowsOfYear(y) == <<EthnicRow(y, "Jews & Christians", "men"), EthnicRow(y, "Arabs", "women")>>

EthnicFile(Y) == LET ys == SeqOfSet(Y) IN Concat([i \in DOMAIN ys |-> EthnicRowsOfYear(ys[i])])

\* The file without its 'group' column.
EthnicFileNoGroup ==
    [i \in DOMAIN EthnicFile(Years) |->
        [c \in {"year", "ethnicity", "total"} |-> EthnicFile(Years)[i][c]]]

\* The file with one more row, whose year is text.
EthnicFileTextYear == EthnicFile(Years) \o <<[EthnicFile(Years)[1] EXCEPT !.year = Junk]>>

EthnicFiles ==
    {EthnicFile({y \in Years : f[y]}) : f \in OneOff(TRUE, {FALSE})}
    \cup {Reverse(EthnicFile(Years)), EthnicFileNoGroup, EthnicFileTextYear}

DefaultEthnic == EthnicFile(Years)

\* 'Suicides - Olim.csv': per year no row or one row of counts; the rows may come
\* in descending year order.
OlimRow(y, v) == [year |-> y, Ethiopia |-> v[1], USSR |-> v[2], Others |-> v[3]]

OlimFile(f) ==
    LET ys == SeqOfSet({y \in Years : f[y] # <<>>})
    IN [i \in DOMAIN ys |-> OlimRow(ys[i], f[ys[i]])]

DefaultOlim == OlimFile([y \in Years |-> <<10, 30, 10>>])

OlimFiles ==
    {OlimFile(f) : f \in OneOff(<<10, 30, 10>>, {<<>>, <<0, 0, 0>>, <<3, 1, 0>>})}
    \cup {Reverse(DefaultOlim), DefaultOlim \o <<OlimRow(Junk, <<1, 1, 1>>)>>}

\* 'Olim - Attempts.csv': per year no row, or the 'all' and the 'men' row; the
\* three counts of a row are numbers, possibly zero, or text that is no number.
OlimAttemptRow(y, g, v) ==
    [year |-> y, group |-> g, ethiopia_since_1980 |-> v[1], ussr_since_1990 |-> v[2],
     other_immigrants |-> v[3]]

OlimAttemptFile(f) ==
    LET ys == SeqOfSet({y \in Years : f[y] # <<>>})
    IN Concat([i \in DOMAIN ys |->
                  <<OlimAttemptRow(ys[i], "all", f[ys[i]]), OlimAttemptRow(ys[i], "men", <<3, 4, 3>>)>>])

DefaultOlimAttempts == OlimAttemptFile([y \in Years |-> <<5, 10, 5>>])

\* The file without its 'group' column: one row per year.
OlimAttemptFileNoGroup ==
    LET ys == SeqOfSet(Years)
    IN [i \in DOMAIN ys |->
           [year |-> ys[i], ethiopia_since_1980 |-> 5, ussr_since_1990 |-> 10, other_immigrants |-> 5]]

OlimAttemptFiles ==
    {OlimAttemptFile(f) : f \in OneOff(<<5, 10, 5>>, {<<>>, <<0, 0, 0>>, <<5, Junk, 5>>})}
    \cup {OlimAttemptFileNoGroup}

\* 'Suicides - Month&Year.csv' and 'Attempts - Month&Year.csv': one row per
\* chosen year, columns Year and Jan .. Dec.
MonthRow(y, v) ==
    [c \in {"Year"} \cup Range(FileMonths) |-> IF c = "Year" THEN y ELSE v]

SuicideMonthFile(Y) == LET ys == SeqOfSet(Y) IN [i \in DOMAIN ys |-> MonthRow(ys[i], 5 + (ys[i] - 2015))]

\* A row of the attempts file: the counts differ from month to month.
AttemptMonthRow(y) ==
    [c \in {"Year"} \cup Range(FileMonths) |->
        IF c = "Year" THEN y
        ELSE 50 + (y - 2015) + (CHOOSE i \in DOMAIN FileMonths : FileMonths[i] = c)]

AttemptMonthFile(Y) == LET ys == SeqOfSet(Y) IN [i \in DOMAIN ys |-> AttemptMonthRow(ys[i])]

\* A monthly file without its 'Dec' column.
WithoutDec(t) == [i \in DOMAIN t |-> [c \in DOMAIN t[i] \ {"Dec"} |-> t[i][c]]]

\* ------------------------------------------------------------------- files
\* A file pd.read_csv raises on: it is missing, or it is no CSV file.
Unreadable == <<[unreadable |-> TRUE]>>

\* The files that are unreadable in one of the sessions.
UnreadableFiles ==
    {"Attempts - Age&Gender", "Suicides - Ethnic Groups", "Suicides - Olim",
     "Suicides - Month&Year", "Attempts - Month&Year"}

FileNames ==
    {"Suicides per Gender", "Suicides - Age&Gender", "Attempts - Age&Gender",
     "Suicides - Ethnic Groups", "Attempts - Ethnic Groups", "Suicides - Olim",
     "Olim - Attempts", "Suicides - Month&Year", "Attempts - Month&Year"}

DefaultDisk ==
    [f \in FileNames |->
        CASE f = "Suicides per Gender" -> DefaultGender
          [] f = "Suicides - Age&Gender" -> DefaultAge
          [] f = "Attempts - Age&Gender" -> DefaultAttempts
          [] f = "Suicides - Ethnic Groups" -> DefaultEthnic
          [] f = "Attempts - Ethnic Groups" -> DefaultEthnic
          [] f = "Suicides - Olim" -> DefaultOlim
          [] f = "Olim - Attempts" -> DefaultOlimAttempts
          [] f = "Suicides - Month&Year" -> SuicideMonthFile(Years)
          [] f = "Attempts - Month&Year" -> AttemptMonthFile(Years)]

\* The folders the model starts from: the default files with the content of one
\* file replaced.
Disks ==
    {[DefaultDisk EXCEPT !["Suicides per Gender"] = t] : t \in GenderFiles}
    \cup {[DefaultDisk EXCEPT !["Suicides - Age&Gender"] = t] : t \in AgeFiles}
    \cup {[DefaultDisk EXCEPT !["Attempts - Age&Gender"] = t] : t \in AttemptFiles}
    \cup {[DefaultDisk EXCEPT !["Suicides - Ethnic Groups"] = t] : t \in EthnicFiles}
    \cup {[DefaultDisk EXCEPT !["Attempts - Ethnic Groups"] = t] : t \in EthnicFiles}
    \cup {[DefaultDisk EXCEPT !["Suicides - Olim"] = t] : t \in OlimFiles}
    \cup {[DefaultDisk EXCEPT !["Olim - Attempts"] = t] : t \in OlimAttemptFiles}
    \cup {[DefaultDisk EXCEPT !["Suicides - Month&Year"] = SuicideMonthFile({y \in Years : f[y]})] :
              f \in OneOff(TRUE, {FALSE})}
    \cup {[DefaultDisk EXCEPT !["Attempts - Month&Year"] = AttemptMonthFile({y \in Years : f[y]})] :
              f \in OneOff(TRUE, {FALSE})}
    \cup {[DefaultDisk EXCEPT !["Suicides - Month&Year"] = <<>>]}
    \cup {[DefaultDisk EXCEPT !["Suicides - Month&Year"] = WithoutDec(SuicideMonthFile(Years))],
          [DefaultDisk EXCEPT !["Attempts - Month&Year"] = WithoutDec(AttemptMonthFile(Years))]}
    \cup {[DefaultDisk EXCEPT !["Suicides - Month&Year"] =
                SuicideMonthFile(Years) \o <<MonthRow(Junk, 5)>>]}
    \cup {[DefaultDisk EXCEPT ![f] = Unreadable] : f \in UnreadableFiles}

\* ------------------------------------------------------------------- state
VARIABLES
    disk,        \* the CSV files: file name -> table
    cached,      \* the loaders whose result st.cache_data holds
    failed,      \* those of them whose result is None
    raw,         \* the tables held for the session: table name -> table
    reads,       \* how often each CSV file has been read: file name -> "never",
                 \* "once" or "again" (more than once)
    section,     \* the selectbox: the section displayed ("none": page not opened)
    start_year,  \* the select_slider: the year window
    end_year,
    selected,    \* the multiselect of Age Analysis: the selected age groups
    chart_type,  \* the radio of Demographic Analysis
    measures,    \* the multiselect of Time Trends
    status,      \* "ok", or the exception that ended the last run of main(), or
                 \* "LoadError": the run returned after st.error on a failed read
    filtered_gender,  \* the gender table in the year window, as main() filters it
    out,         \* the structures the display function of the last run derived
    earlier      \* one run of main() before the last one, kept for comparison

vars == <<disk, cached, failed, raw, reads, section, start_year, end_year, selected, chart_type, measures,
          status, filtered_gender, out, earlier>>

DataTables == {"suicides_gender", "suicides_age_gender", "attempts_age_gender", "ethnic_groups"}

EthnicTables == {"suicides_ethnic_groups", "attempts_ethnic_groups", "suicides_olim", "attempts_olim"}

RawNames == DataTables \cup EthnicTables

\* The local variables that are bound to a copy of a raw table and then assigned to.
LocalNames == {"age_gender_data", "all_years_data", "attempts_data", "men_data", "all_data",
               "suicides_pct"}

\* The files load_data() reads, load_ethnic_data() reads and display_time_trends
\* reads, in the order of the reads.
LoadDataFiles ==
    <<"Suicides per Gender", "Suicides - Age&Gender", "Attempts - Age&Gender", "Suicides - Ethnic Groups">>

LoadEthnicFiles ==
    <<"Suicides - Ethnic Groups", "Attempts - Ethnic Groups", "Suicides - Olim", "Olim - Attempts">>

MonthlyFiles == <<"Suicides - Month&Year", "Attempts - Month&Year">>

\* Whether one of the reads of `files` raises.
ReadFails(files, d) == \E i \in DOMAIN files : d[files[i]] = Unreadable

\* The files pd.read_csv is called on: those up to the first one it raises on.
FilesRead(files, d) ==
    {files[i] : i \in {j \in DOMAIN files : \A k \in 1..(j - 1) : d[files[k]] # Unreadable}}

\* The value a loader returns from its except branch.
None == [none |-> TRUE]

\* The file load_data() reads the table `n` from.
FileOfTable(n) ==
    CASE n = "suicides_gender" -> "Suicides per Gender"
      [] n = "suicides_age_gender" -> "Suicides - Age&Gender"
      [] n = "attempts_age_gender" -> "Attempts - Age&Gender"
      [] n = "ethnic_groups" -> "Suicides - Ethnic Groups"

\* load_data() as it would be if its except branch returned the tables read
\* before the failure.
load_data_partial(d) ==
    [n \in DataTables |->
        IF FileOfTable(n) \in FilesRead(LoadDataFiles, d) /\ d[FileOfTable(n)] # Unreadable
        THEN d[FileOfTable(n)] ELSE <<>>]

\* load_data(): the four tables as read, or None when a read raises.
load_data(d) ==
    IF ReadFails(LoadDataFiles, d) THEN None ELSE [n \in DataTables |-> d[FileOfTable(n)]]

\* df.dropna(subset=['year'])
DropNaYear(t) == SelectSeq(t, LAMBDA r : r["year"] # NaN)

\* The loop of load_ethnic_data over three of its four tables.
NumericSortedYear(t) == SortByYear(DropNaYear(CoerceYear(t)))

\* load_ethnic_data(): its four tables, or None when a read raises.
load_ethnic_data(d) ==
    IF ReadFails(LoadEthnicFiles, d) THEN None ELSE
    [n \in EthnicTables |->
        CASE n = "suicides_ethnic_groups" -> NumericSortedYear(d["Suicides - Ethnic Groups"])
          [] n = "attempts_ethnic_groups" -> d["Attempts - Ethnic Groups"]
          [] n = "suicides_olim" -> NumericSortedYear(d["Suicides - Olim"])
          [] n = "attempts_olim" -> NumericSortedYear(d["Olim - Attempts"])]

\* The reads after one pd.read_csv of each file of `files`.
Read(r, files) ==
    [f \in FileNames |-> IF f \notin files THEN r[f] ELSE IF r[f] = "never" THEN "once" ELSE "again"]

\* The reads after a run of main() on section `sec`: a cached loader reads its
\* files when it is first called, display_time_trends reads its two files in
\* every call.
ReadsAfter(r, c, sec) ==
    Read(Read(r, IF "load_data" \in c THEN {} ELSE FilesRead(LoadDataFiles, disk)),
         IF sec = "Demographic Analysis" /\ "load_ethnic_data" \notin c
         THEN FilesRead(LoadEthnicFiles, disk)
         ELSE IF sec = "Time Trends" THEN FilesRead(MonthlyFiles, disk)
         ELSE {})

\* Whether the cached loader `f` returns None in this run: the None it
\* returned before, or the one it returns now.
ReturnsNone(f, result) == IF f \in cached THEN f \in failed ELSE result = None

\* The loaders that have returned None, after a run of main() on section `sec`.
FailedAfter(sec) ==
    failed \cup (IF sec = "Demographic Analysis"
                      /\ ReturnsNone("load_ethnic_data", load_ethnic_data(disk))
                 THEN {"load_ethnic_data"} ELSE {})

\* The tables of the session after a call of the cached loader `f`: those held,
\* or those read now.
Cached(h, c, f, names, tables) ==
    IF f \in c THEN h ELSE [n \in DOMAIN h |-> IF n \in names THEN tables[n] ELSE h[n]]

\* The object a local variable would name after `local = data[src]`, without
\* the copy: the raw table itself.
ObjAliased(src, local) == src

\* The object a local variable names after `local = data[src].copy()`: a new
\* table, not the raw one.
Obj(src, local) == local

\* The tables by name, raw and local, after `local = data[src].copy()`.
CopyTo(h, src, local) == [h EXCEPT ![Obj(src, local)] = h[src]]

\* ... after `local['year'] = pd.to_numeric(local['year'], errors='coerce')`.
AssignNumericYear(h, src, local) == [h EXCEPT ![Obj(src, local)] = CoerceYear(@)]

\* copy() and the assignment of the numeric year, as the display functions
\* start: the resulting tables by name.
CopyWithNumericYear(h, src, local) == AssignNumericYear(CopyTo(h, src, local), src, local)

Heap(r) == [n \in RawNames \cup LocalNames |-> IF n \in RawNames THEN r[n] ELSE <<>>]

RawOf(h) == [n \in RawNames |-> h[n]]

EmptyOut ==
    [kpis |-> <<>>, charts |-> <<>>,
     age_gender_data |-> <<>>, avg_by_age_df |-> <<>>, default_group |-> "",
     all_years_data |-> <<>>, attempts_data |-> <<>>, comparison_df |-> <<>>,
     men_data |-> <<>>, all_data |-> <<>>, gender_df |-> <<>>,
     suicides_filtered |-> <<>>, attempts_filtered |-> <<>>, chart_data |-> <<>>,
     combined_data |-> <<>>, combined_data_long |-> <<>>,
     suicides_month_filtered |-> <<>>, attempts_month_filtered |-> <<>>,
     suicides_yearly |-> <<>>, attempts_yearly |-> <<>>,
     yearly_data |-> <<>>, yearly_data_long |-> <<>>, filtered_data |-> <<>>]

\* The end of a run of main() as it would be if the derived structures were
\* updated in place: those the run did not derive are left from the run before.
FinishIncremental(st, o, h, loaders, sel) ==
    /\ status' = st
    /\ out' = [k \in DOMAIN o |-> IF o[k] = EmptyOut[k] THEN out[k] ELSE o[k]]
    /\ raw' = RawOf(h)
    /\ cached' = cached \cup loaders
    /\ selected' = sel

\* The end of a run of main(): how it ended, what it derived, the tables by
\* name as it leaves them, the loaders it called and the age groups selected.
Finish(st, o, h, loaders, sel) ==
    /\ status' = st
    /\ out' = o
    /\ raw' = RawOf(h)
    /\ cached' = cached \cup loaders
    /\ selected' = sel

\* No run is kept.
NoRun == [section |-> "none"]

\* The widgets' values before the user touches them.
DefaultChartType == "Completed Suicides"

DefaultMeasures == <<"Suicides", "Attempts">>

Init ==
    /\ disk \in Disks
    /\ cached = {}
    /\ failed = {}
    /\ raw = [n \in RawNames |-> <<>>]
    /\ reads = [f \in FileNames |-> "never"]
    /\ section = "none"
    /\ start_year = 0
    /\ end_year = 0
    /\ selected = <<>>
    /\ chart_type = DefaultChartType
    /\ measures = DefaultMeasures
    /\ status = "ok"
    /\ filtered_gender = <<>>
    /\ out = EmptyOut
    /\ earlier = NoRun

\* The slider's options as they would be if it offered every year from the
\* first to the last of the table.
SliderYearsSpan(t) == ColMin(t, "year")..ColMax(t, "year")

\* years = sorted(data['suicides_gender']['year'].unique()), as a set.
SliderYears(t) == {t[i]["year"] : i \in DOMAIN t}

\* ---------------------------------------------------------------- Overview
\* The delta of one KPI: the latest value minus .iloc[0] of the prior year's
\* rows, as the float the metric formats.
Delta(col, latest_data, prior) == FSub(OfCell(latest_data[1][col]), OfCell(prior[1][col]))

Kpi(label, col, latest_data, prior) ==
    [label |-> label, value |-> latest_data[1][col], delta |-> Delta(col, latest_data, prior)]

display_overview(fg, h) ==
    \E latest_year \in {ColMax(fg, "year")} :
    \E latest_data \in {WhereEq(fg, "year", latest_year)} :
    \E prior \in {WhereEq(fg, "year", latest_year - 1)} :
        IF prior = <<>>
        THEN \* .iloc[0] of an empty selection raises, before the first st.metric call
             Finish("IndexError", EmptyOut, h, {"load_data"}, <<>>)
        ELSE Finish("ok",
                    [EmptyOut EXCEPT
                       !.kpis = <<Kpi("Total Suicides", "total_num", latest_data, prior),
                                  Kpi("Male Suicides", "men_num", latest_data, prior),
                                  Kpi("Female Suicides", "women_num", latest_data, prior),
                                  Kpi("Total Rate", "total_rate", latest_data, prior)>>,
                       !.charts = <<"gender_rates", "gender_numbers">>],
                    h, {"load_data"}, <<>>)

\* ------------------------------------------------------------ Age Analysis
FLt(x, y) == IsFNum(x) /\ IsFNum(y) /\ x.n * y.d < y.n * x.d

\* t[age_cols].mean(): the mean of each age column, in the declared order.
AvgByAge(t) == [i \in DOMAIN AgeCols |-> Mean(t, AgeCols[i])]

\* The label of the last greatest mean.
IdxMaxLast(avg) ==
    LET best == CHOOSE i \in DOMAIN avg :
                    /\ IsFNum(avg[i])
                    /\ \A j \in DOMAIN avg : IsFNum(avg[j]) => ~FLt(avg[i], avg[j])
                    /\ \A j \in (i + 1)..Len(avg) : ~IsFNum(avg[j]) \/ FLt(avg[j], avg[i])
    IN AgeCols[best]

\* avg_by_age.idxmax(): the label of the first greatest mean, NaNs skipped.
IdxMax(avg) ==
    LET best == CHOOSE i \in DOMAIN avg :
                    /\ IsFNum(avg[i])
                    /\ \A j \in DOMAIN avg : IsFNum(avg[j]) => ~FLt(avg[i], avg[j])
                    /\ \A j \in 1..(i - 1) : ~IsFNum(avg[j]) \/ FLt(avg[j], avg[i])
    IN AgeCols[best]

\* The index of the first least 'Average Suicides' of a table, a NaN counting
\* as greater than every number.
FirstLeast(t) ==
    CHOOSE i \in DOMAIN t :
        /\ \A j \in DOMAIN t : ~FLt(t[j]["Average Suicides"], t[i]["Average Suicides"])
        /\ \A j \in 1..(i - 1) : FLt(t[i]["Average Suicides"], t[j]["Average Suicides"])
                                 \/ (IsFNum(t[i]["Average Suicides"]) /\ ~IsFNum(t[j]["Average Suicides"]))
        /\ IsFNum(t[i]["Average Suicides"]) \/ \A j \in DOMAIN t : ~IsFNum(t[j]["Average Suicides"])

Without(t, k) == [i \in 1..(Len(t) - 1) |-> IF i < k THEN t[i] ELSE t[i + 1]]

RECURSIVE SortByAverage(_)
RemoveThenSort(t, k) == <<t[k]>> \o SortByAverage(Without(t, k))

\* avg_by_age_df.sort_values(by='Average Suicides', ascending=True): NaNs last.
SortByAverage(t) == IF t = <<>> THEN <<>> ELSE RemoveThenSort(t, FirstLeast(t))

\* Columns of a table that has rows (a table is modelled by its rows).
ColumnsOf(t) == IF t = <<>> THEN {} ELSE DOMAIN t[1]

ComparisonRow(g, type, avg) == ("Age Group" :> g) @@ ("Type" :> type) @@ ("Average" :> avg)

GenderDfRow(g, gender, avg) == ("Age Group" :> g) @@ ("Gender" :> gender) @@ ("Average Suicides" :> avg)

\* The rows of the comparison loop as they would be if the attempts row were
\* appended only for an age group that has its column in the attempts table.
ComparisonRowsMapped(g, suicide_data, attempts_data, attempt_columns) ==
    <<ComparisonRow(g, "Completed Suicides", Mean(suicide_data, g))>> \o
    (IF AttemptColOf(g) \in attempt_columns
     THEN <<ComparisonRow(g, "Suicide Attempts", Mean(attempts_data, AttemptColOf(g)))>>
     ELSE <<>>)

\* The two rows the comparison loop appends for one selected age group.
ComparisonRows(g, suicide_data, attempts_data, attempt_columns) ==
    LET suicide_avg == Mean(suicide_data, g)
        attempt_col == AttemptColOf(g)
        attempt_avg == IF attempt_col \in attempt_columns
                       THEN Mean(attempts_data, attempt_col)
                       ELSE Num(0, 1)
    IN <<ComparisonRow(g, "Completed Suicides", suicide_avg),
         ComparisonRow(g, "Suicide Attempts", attempt_avg)>>

\* The subtraction with its operands exchanged.
WomenAvgSwapped(all_avg, men_avg) == FSub(men_avg, all_avg)

\* women_avg = all_avg - men_avg
WomenAvg(all_avg, men_avg) == FSub(all_avg, men_avg)

\* The two rows the gender loop appends for one selected age group.
GenderRows(g, men_data, all_data) ==
    LET men_avg == Mean(men_data, g)
        all_avg == Mean(all_data, g)
        women_avg == WomenAvg(all_avg, men_avg)
    IN <<GenderDfRow(g, "Men", men_avg), GenderDfRow(g, "Women", women_avg)>>

display_age_analysis(h, s, e, selected_age_groups, default_group) ==
    \E src \in {"suicides_age_gender"} :
    \E h2 \in {CopyWithNumericYear(h, src, "age_gender_data")} :
    \E age_gender_data \in {YearFilter(h2[Obj(src, "age_gender_data")], s, e)} :
    \E suicide_data \in {WhereEq(age_gender_data, "group", "all")} :
    \E avg_by_age \in {AvgByAge(suicide_data)} :
    \E avg_by_age_df \in {SortByAverage([i \in DOMAIN AgeCols |->
                             ("Age Group" :> AgeCols[i]) @@ ("Average Suicides" :> avg_by_age[i])])} :
    \E shown \in {[EmptyOut EXCEPT
                     !.default_group = default_group,
                     !.age_gender_data = age_gender_data,
                     !.avg_by_age_df = avg_by_age_df,
                     !.charts = <<"avg_by_age", "prompt">>]} :
        IF selected_age_groups = <<>>
        THEN Finish("ok", shown, h2, {"load_data"}, selected_age_groups)
        ELSE \* col1
             \E h3 \in {CopyWithNumericYear(h2, src, "all_years_data")} :
             \E all_years_data \in {WhereEq(h3[Obj(src, "all_years_data")], "group", "all")} :
             \* col2
             \E h4 \in {CopyWithNumericYear(h3, "attempts_age_gender", "attempts_data")} :
             \E attempts_all \in {h4[Obj("attempts_age_gender", "attempts_data")]} :
             \E attempts_data \in {WhereEq(YearFilter(attempts_all, s, e), "group", "all")} :
             \E comparison_df \in {Concat([i \in DOMAIN selected_age_groups |->
                                      ComparisonRows(selected_age_groups[i], suicide_data,
                                                     attempts_data, ColumnsOf(attempts_all))])} :
             \* col3
             \E h5 \in {CopyWithNumericYear(h4, src, "men_data")} :
             \E men_data \in {WhereEq(YearFilter(h5[Obj(src, "men_data")], s, e), "group", "men")} :
             \E h6 \in {CopyWithNumericYear(h5, src, "all_data")} :
             \E all_data \in {WhereEq(YearFilter(h6[Obj(src, "all_data")], s, e), "group", "all")} :
             \E gender_df \in {Concat([i \in DOMAIN selected_age_groups |->
                                  GenderRows(selected_age_groups[i], men_data, all_data)])} :
                 Finish("ok",
                        [shown EXCEPT
                           !.all_years_data = all_years_data,
                           !.attempts_data = attempts_data,
                           !.comparison_df = comparison_df,
                           !.men_data = men_data,
                           !.all_data = all_data,
                           !.gender_df = gender_df,
                           !.charts = <<"avg_by_age", "fig_time", "fig_comparison", "fig_gender">>],
                        h6, {"load_data"}, selected_age_groups)

\* The value that stands for "what the multiselect holds" where a selection is
\* passed.
WidgetValue == <<"(widget)">>

\* The "Age Analysis" branch of main(): the default age group, the multiselect,
\* display_age_analysis.  `pick` is the selection the user just made, or
\* WidgetValue; the multiselect keeps its value from the last run while its
\* default is the same, and shows its default otherwise.
AgeBranch(h, s, e, pick) ==
    \E src \in {"suicides_age_gender"} :
    \E h1 \in {CopyWithNumericYear(h, src, "age_gender_data")} :
    \E filtered_data \in {WhereEq(YearFilter(h1[Obj(src, "age_gender_data")], s, e), "group", "all")} :
    \E avg_by_age \in {AvgByAge(filtered_data)} :
        IF \A i \in DOMAIN avg_by_age : ~IsFNum(avg_by_age[i])
        THEN \* no mean is a number: idxmax() raises (or returns NaN, which
             \* st.multiselect rejects as a default that is no option)
             Finish("ValueError", EmptyOut, h1, {"load_data"}, <<>>)
        ELSE \E max_suicide_age_group \in {IdxMax(avg_by_age)} :
             \E held \in {IF section = "Age Analysis" /\ status = "ok"
                             /\ out.default_group = max_suicide_age_group
                          THEN selected ELSE <<max_suicide_age_group>>} :
                 display_age_analysis(h1, s, e, IF pick = WidgetValue THEN held ELSE pick,
                                      max_suicide_age_group)

\* The selections the user makes in the multiselect: age groups in the order chosen.
Selections == {<<>>, <<"<14">>, <<"15-17">>, <<"15-17", "<14">>}

\* ---------------------------------------------------- Demographic Analysis
\* a + b on two cells; NaN when either is missing.
AddCells(a, b) == IF IsNum(a) /\ IsNum(b) THEN a + b ELSE NaN

\* a / b on two cells, as the float division of two columns gives it.
Div(a, b) ==
    IF ~IsNum(a) \/ ~IsNum(b) THEN FNaN
    ELSE IF b = 0 THEN (IF a = 0 THEN FNaN ELSE IF a > 0 THEN FInf ELSE FNegInf)
    ELSE IF b > 0 THEN Num(a, b) ELSE Num(0 - a, 0 - b)

\* The share as a percentage instead of a fraction.
ShareTimes100(value, total) == Div(100 * value, total)

\* The share of one origin in a row's total: df[col] / df[total].
Share(value, total) == Div(value, total)

\* The columns added with the same data_type whatever the table.
WithSharesOneType(t, eth, ussr, others, total_col, data_type) ==
    [i \in DOMAIN t |->
        LET r == t[i]
            total == AddCells(AddCells(r[eth], r[ussr]), r[others])
        IN r @@ (total_col :> total)
             @@ ("Ethiopia_pct" :> Share(r[eth], total))
             @@ ("USSR_pct" :> Share(r[ussr], total))
             @@ ("Others_pct" :> Share(r[others], total))
             @@ ("data_type" :> "Completed Suicides")]

\* The total and the three percentage columns, and data_type, added to a table.
WithShares(t, eth, ussr, others, total_col, data_type) ==
    [i \in DOMAIN t |->
        LET r == t[i]
            total == AddCells(AddCells(r[eth], r[ussr]), r[others])
        IN r @@ (total_col :> total)
             @@ ("Ethiopia_pct" :> Share(r[eth], total))
             @@ ("USSR_pct" :> Share(r[ussr], total))
             @@ ("Others_pct" :> Share(r[others], total))
             @@ ("data_type" :> data_type)]

\* pd.to_numeric(col.astype(str).str.strip("'"), errors='coerce') on the three
\* count columns of the attempts table: a number, quoted or not, is the number.
NumericCounts(t) ==
    [i \in DOMAIN t |->
        [t[i] EXCEPT !["ethiopia_since_1980"] = ToNumeric(@),
                     !["ussr_since_1990"] = ToNumeric(@),
                     !["other_immigrants"] = ToNumeric(@)]]

\* df[['year', 'Ethiopia_pct', 'USSR_pct', 'Others_pct', 'data_type']] with the
\* three percentage columns renamed to Ethiopia, USSR, Others.
ForVis(t) ==
    [i \in DOMAIN t |->
        [year |-> t[i]["year"], Ethiopia |-> t[i]["Ethiopia_pct"], USSR |-> t[i]["USSR_pct"],
         Others |-> t[i]["Others_pct"], data_type |-> t[i]["data_type"]]]

\* A melt that goes row by row, each row giving one long row per value column.
MeltByRow(t, id_vars, value_vars, var_name, value_name) ==
    Concat([i \in DOMAIN t |->
        [k \in DOMAIN value_vars |->
            [c \in id_vars |-> t[i][c]] @@ (var_name :> value_vars[k])
                @@ (value_name :> t[i][value_vars[k]])]])

\* pd.melt(t, id_vars, value_vars, var_name, value_name): for each value
\* column in turn, one row per row of t.
Melt(t, id_vars, value_vars, var_name, value_name) ==
    Concat([k \in DOMAIN value_vars |->
        [i \in DOMAIN t |->
            [c \in id_vars |-> t[i][c]] @@ (var_name :> value_vars[k])
                @@ (value_name :> t[i][value_vars[k]])]])

\* str(year): the year as text.
StrOf(y) == <<"str", y>>

\* df['year'] = df['year'].astype(str)
YearAsStr(t) == [i \in DOMAIN t |-> [t[i] EXCEPT !["year"] = StrOf(@)]]

\* chart_data['ethnicity_gender'] = chart_data['ethnicity'] + ' - ' + chart_data['group']
WithEthnicityGender(t) ==
    [i \in DOMAIN t |-> t[i] @@ ("ethnicity_gender" :> <<t[i]["ethnicity"], " - ", t[i]["group"]>>)]

\* A test for the two columns that names one of them in another case.
HasEthnicColumnsMisspelt(chart_data) == {"ethnicity", "Group"} \subseteq ColumnsOf(chart_data)

\* "ethnicity" in chart_data.columns and "group" in chart_data.columns
HasEthnicColumns(chart_data) == {"ethnicity", "group"} \subseteq ColumnsOf(chart_data)

display_demographic_analysis(h0, s, e, ct) ==
    IF ReturnsNone("load_ethnic_data", load_ethnic_data(disk))
    THEN \* st.error and return
         Finish("LoadError", EmptyOut, h0, {"load_data", "load_ethnic_data"}, <<>>)
    ELSE
    \E h \in {Cached(h0, cached, "load_ethnic_data", EthnicTables, load_ethnic_data(disk))} :
    \E suicides_filtered \in {YearFilter(h["suicides_ethnic_groups"], s, e)} :
    IF YearIsText(h["attempts_ethnic_groups"])
    THEN \* the year of this table is compared as it was read
         Finish("TypeError", [EmptyOut EXCEPT !.suicides_filtered = suicides_filtered],
                h, {"load_data", "load_ethnic_data"}, <<>>)
    ELSE
    \E attempts_filtered \in {YearFilter(h["attempts_ethnic_groups"], s, e)} :
    \E source \in {IF ct = "Completed Suicides" THEN "suicides_ethnic_groups"
                   ELSE "attempts_ethnic_groups"} :
    \E filtered \in {IF ct = "Completed Suicides" THEN suicides_filtered ELSE attempts_filtered} :
    \E has_columns \in {HasEthnicColumns(h[source])} :
    \E chart_data \in {IF has_columns THEN WithEthnicityGender(filtered) ELSE filtered} :
    \E first_chart \in {IF has_columns THEN "ethnic_trends" ELSE "warning"} :
    \* the newcomers' shares
    \E pct \in {Obj("suicides_olim", "suicides_pct")} :
    \E h1 \in {CopyTo(h, "suicides_olim", "suicides_pct")} :
    \E h2 \in {[h1 EXCEPT ![pct] = WithShares(@, "Ethiopia", "USSR", "Others", "total",
                                               "Completed Suicides")]} :
    IF "group" \notin ColumnsOf(h2["attempts_olim"])
    THEN \* data['attempts_olim']['group'] raises, after the first chart
         Finish("KeyError",
                [EmptyOut EXCEPT
                   !.suicides_filtered = suicides_filtered,
                   !.attempts_filtered = attempts_filtered,
                   !.chart_data = chart_data,
                   !.charts = <<first_chart>>],
                h2, {"load_data", "load_ethnic_data"}, <<>>)
    ELSE
    \E attempts_pct \in {WithShares(NumericCounts(WhereEq(h2["attempts_olim"], "group", "all")),
                                    "ethiopia_since_1980", "ussr_since_1990", "other_immigrants",
                                    "Total", "Attempts")} :
    \E combined_data \in {ForVis(h2[pct]) \o ForVis(attempts_pct)} :
    \E combined_data_long \in {YearAsStr(Melt(combined_data, {"year", "data_type"},
                                              <<"Ethiopia", "USSR", "Others">>,
                                              "Origin", "Percentage"))} :
        Finish("ok",
               [EmptyOut EXCEPT
                  !.suicides_filtered = suicides_filtered,
                  !.attempts_filtered = attempts_filtered,
                  !.chart_data = chart_data,
                  !.combined_data = combined_data,
                  !.combined_data_long = combined_data_long,
                  !.charts = <<first_chart, "origin_shares">>],
               h2, {"load_data", "load_ethnic_data"}, <<>>)

\* ------------------------------------------------------------- Time Trends
RECURSIVE SumCells(_, _, _)
\* The sum of the cells of one row over the first k columns of `cols`, NaNs skipped.
SumCells(r, cols, k) ==
    IF k = 0 THEN 0
    ELSE (IF IsNum(r[cols[k]]) THEN r[cols[k]] ELSE 0) + SumCells(r, cols, k - 1)

\* The total over the months but the last.
YearlyButLast(t, name) ==
    [i \in DOMAIN t |-> ("year" :> t[i]["year"]) @@ (name :> SumCells(t[i], Months, Len(Months) - 1))]

\* df[months].sum(axis=1), renamed to `name`, and df[['year', name]].
Yearly(t, name) ==
    [i \in DOMAIN t |-> ("year" :> t[i]["year"]) @@ (name :> SumCells(t[i], Months, Len(Months)))]

\* pd.merge(left, right, on='year'): the rows of left and right with the same
\* year, in the order of left.
Merge(left, right) ==
    Concat([i \in DOMAIN left |->
        LET m == WhereEq(right, "year", left[i]["year"])
        IN [j \in DOMAIN m |-> left[i] @@ m[j]]])

\* The columns of a monthly table; a file without rows has the whole header.
MonthlyColumns(t) == IF t = <<>> THEN {"year"} \cup Range(Months) ELSE DOMAIN t[1]

display_time_trends(h, s, e, selected_measures) ==
    IF ReadFails(MonthlyFiles, disk)
    THEN \* st.error and return
         Finish("LoadError", EmptyOut, h, {"load_data"}, <<>>)
    ELSE
    \E suicides_month \in {LowerColumns(disk["Suicides - Month&Year"])} :
    \E attempts_month \in {LowerColumns(disk["Attempts - Month&Year"])} :
    IF YearIsText(suicides_month) \/ YearIsText(attempts_month)
    THEN Finish("TypeError",
                [EmptyOut EXCEPT !.suicides_month_filtered =
                                    IF YearIsText(suicides_month) THEN <<>>
                                    ELSE YearFilter(suicides_month, s, e)],
                h, {"load_data"}, <<>>)
    ELSE
    \E suicides_month_filtered \in {YearFilter(suicides_month, s, e)} :
    \E attempts_month_filtered \in {YearFilter(attempts_month, s, e)} :
    IF ~(Range(Months) \subseteq MonthlyColumns(suicides_month))
          \/ ~(Range(Months) \subseteq MonthlyColumns(attempts_month))
    THEN \* df[months] raises for the month that is no column
         Finish("KeyError",
                [EmptyOut EXCEPT
                   !.suicides_month_filtered = suicides_month_filtered,
                   !.attempts_month_filtered = attempts_month_filtered],
                h, {"load_data"}, <<>>)
    ELSE
    \E suicides_yearly \in {Yearly(suicides_month_filtered, "Suicides")} :
    \E attempts_yearly \in {Yearly(attempts_month_filtered, "Attempts")} :
    \E yearly_data \in {Merge(suicides_yearly, attempts_yearly)} :
    \E yearly_data_long \in {Melt(yearly_data, {"year"}, <<"Suicides", "Attempts">>,
                                  "Measure", "Count")} :
    \E filtered_data \in {SelectSeq(yearly_data_long,
                                    LAMBDA r : r["Measure"] \in Range(selected_measures))} :
        Finish("ok",
               [EmptyOut EXCEPT
                  !.suicides_month_filtered = suicides_month_filtered,
                  !.attempts_month_filtered = attempts_month_filtered,
                  !.suicides_yearly = suicides_yearly,
                  !.attempts_yearly = attempts_yearly,
                  !.yearly_data = yearly_data,
                  !.yearly_data_long = yearly_data_long,
                  !.filtered_data = filtered_data,
                  !.charts = <<"yearly_trends">>],
               h, {"load_data"}, <<>>)

\* The selections of measures the user makes.
MeasureSets == {<<"Suicides", "Attempts">>, <<"Suicides">>, <<"Attempts">>, <<>>}

ChartTypes == {"Completed Suicides", "Suicide Attempts"}

Sections == {"Overview", "Time Trends", "Age Analysis", "Demographic Analysis"}

\* -------------------------------------------------------------------- main
\* The run of main() that ends at `if not data`: an error message, and no
\* widget, filter or display function.
LoadFailure ==
    /\ status' = "LoadError"
    /\ cached' = cached \cup {"load_data"}
    /\ failed' = failed \cup {"load_data"}
    /\ reads' = ReadsAfter(reads, cached, "none")
    /\ filtered_gender' = <<>>
    /\ out' = EmptyOut
    /\ UNCHANGED <<disk, raw, section, start_year, end_year, selected, chart_type, measures>>

\* One run of main() with the widgets at (sec, s, e, pick, ct, ms).
main(sec, s, e, pick, ct, ms) ==
    IF ReturnsNone("load_data", load_data(disk))
    THEN LoadFailure
    ELSE
    \E h \in {Heap(Cached(raw, cached, "load_data", DataTables, load_data(disk)))} :
    \E fg \in {YearFilter(h["suicides_gender"], s, e)} :
       /\ section' = sec
       /\ start_year' = s
       /\ end_year' = e
       /\ chart_type' = ct
       /\ measures' = ms
       /\ filtered_gender' = fg
       /\ reads' = ReadsAfter(reads, cached, sec)
       /\ failed' = FailedAfter(sec)
       /\ UNCHANGED disk
       /\ CASE sec = "Overview" -> display_overview(fg, h)
            [] sec = "Age Analysis" -> AgeBranch(h, s, e, pick)
            [] sec = "Demographic Analysis" -> display_demographic_analysis(h, s, e, ct)
            [] sec = "Time Trends" -> display_time_trends(h, s, e, ms)

\* The years the slider offers, read from the gender table as main() reads it.
SliderOptions == SliderYears(Cached(raw, cached, "load_data", DataTables, load_data(disk))["suicides_gender"])

\* The user opens the page: the first run, every widget at its default.
OpenPage ==
    /\ section = "none"
    /\ IF ReturnsNone("load_data", load_data(disk))
       THEN LoadFailure
       ELSE
       LET years == SliderOptions
       IN main("Overview", CHOOSE y \in years : \A z \in years : y <= z,
               CHOOSE y \in years : \A z \in years : z <= y,
               WidgetValue, DefaultChartType, DefaultMeasures)

\* The user picks another section; the widgets of the section left are gone.
SelectSection(sec) ==
    /\ section \notin {"none", sec}
    /\ main(sec, start_year, end_year, WidgetValue, DefaultChartType, DefaultMeasures)

\* The user moves the year slider: one of its two handles.
SelectYearRange(s, e) ==
    /\ section # "none"
    /\ s = start_year \/ e = end_year
    /\ {s, e} \subseteq SliderOptions
    /\ s <= e
    /\ <<s, e>> # <<start_year, end_year>>
    /\ main(section, s, e, WidgetValue, chart_type, measures)

\* The user changes the age groups of Age Analysis.
SelectAgeGroups(sel) ==
    /\ section = "Age Analysis"
    /\ status = "ok"
    /\ sel # selected
    /\ main(section, start_year, end_year, sel, chart_type, measures)

\* The user flips the radio of Demographic Analysis, if the last run got as
\* far as the radio.
SelectDataType(ct) ==
    /\ section = "Demographic Analysis"
    /\ status \in {"ok", "KeyError"}
    /\ ct # chart_type
    /\ main(section, start_year, end_year, WidgetValue, ct, measures)

\* The user changes the measures of Time Trends, if the last run got as far
\* as the multiselect.
SelectMeasures(ms) ==
    /\ section = "Time Trends"
    /\ status = "ok"
    /\ ms # measures
    /\ main(section, start_year, end_year, WidgetValue, chart_type, ms)

Next ==
    \/ OpenPage /\ UNCHANGED earlier
    \/ \E sec \in Sections : SelectSection(sec) /\ UNCHANGED earlier
    \/ \E s \in Years, e \in Years : SelectYearRange(s, e) /\ UNCHANGED earlier
    \/ \E sel \in Selections : SelectAgeGroups(sel) /\ UNCHANGED earlier
    \/ \E ct \in ChartTypes : SelectDataType(ct) /\ UNCHANGED earlier
    \/ \E ms \in MeasureSets : SelectMeasures(ms) /\ UNCHANGED earlier

Spec == Init /\ [][Next]_vars

\* --------------------------------------------------- sessions with a memory
\* The last run: the widgets' values it ran with and what it derived.
LastRun ==
    [section |-> section, start_year |-> start_year, end_year |-> end_year,
     selected |-> selected, chart_type |-> chart_type, measures |-> measures,
     status |-> status, filtered_gender |-> filtered_gender, out |-> out]

\* One run of the session is kept: the last one, as it is replaced by the next,
\* is kept or not.
Remember == earlier' \in (IF earlier = NoRun THEN {NoRun, LastRun} ELSE {earlier})

\* The session compared: on the default files, but for an age x gender file
\* with a row whose year is text, which the copies of Age Analysis turn into NaN.
HistoryDisks ==
    {[DefaultDisk EXCEPT !["Suicides - Age&Gender"] =
         AgeFile([y \in Years |-> "both"]) \o <<AgeRow(Junk, "all")>>]}

InitHistory == Init /\ disk \in HistoryDisks

NextHistory ==
    \/ OpenPage /\ UNCHANGED earlier
    \/ \E sec \in Sections : SelectSection(sec) /\ Remember
    \/ \E s \in Years, e \in Years : SelectYearRange(s, e) /\ Remember
    \/ \E sel \in Selections : SelectAgeGroups(sel) /\ Remember
    \/ \E ct \in ChartTypes : SelectDataType(ct) /\ Remember
    \/ \E ms \in MeasureSets : SelectMeasures(ms) /\ Remember

SpecHistory == InitHistory /\ [][NextHistory]_vars

\* ========================================================= the properties
\* The year-window filters of the last run of main(), each as the pair of the
\* table the mask was applied to and the table it gave.  A mask that also
\* selects a group is paired with the rows of that group.
FilterRuns ==
    IF section = "none" THEN <<>>
    ELSE <<(<<raw["suicides_gender"], filtered_gender>>)>> \o
         (IF section = "Age Analysis" /\ status = "ok"
          THEN <<(<<CoerceYear(raw["suicides_age_gender"]), out.age_gender_data>>)>> \o
               (IF selected # <<>>
                THEN <<(<<WhereEq(CoerceYear(raw["attempts_age_gender"]), "group", "all"),
                          out.attempts_data>>),
                       (<<WhereEq(CoerceYear(raw["suicides_age_gender"]), "group", "men"),
                          out.men_data>>),
                       (<<WhereEq(CoerceYear(raw["suicides_age_gender"]), "group", "all"),
                          out.all_data>>)>>
                ELSE <<>>)
          ELSE IF section = "Demographic Analysis" /\ status # "LoadError"
          THEN <<(<<raw["suicides_ethnic_groups"], out.suicides_filtered>>)>> \o
               (IF status # "TypeError"
                THEN <<(<<raw["attempts_ethnic_groups"], out.attempts_filtered>>)>> ELSE <<>>)
          ELSE IF section = "Time Trends" /\ status \notin {"LoadError", "TypeError"}
          THEN <<(<<LowerColumns(disk["Suicides - Month&Year"]), out.suicides_month_filtered>>),
                 (<<LowerColumns(disk["Attempts - Month&Year"]), out.attempts_month_filtered>>)>>
          ELSE <<>>)

\* Every row of t has its year in the window of the last run.
InBounds(t) == \A i \in DOMAIN t : t[i]["year"] \in start_year..end_year

\* Every row of `input` whose year is in the window is a row of t.
KeepsWindow(input, t) ==
    \A i \in DOMAIN input :
        input[i]["year"] \in start_year..end_year => \E j \in DOMAIN t : t[j] = input[i]

\* C1: for every year-window filter of a run (gender, age x gender, attempts,
\* ethnic groups, monthly tables) with start_year <= end_year, every row of the
\* filtered table has start_year <= year <= end_year, and every row of the
\* input whose year lies in the window is in the filtered table.
C1_YearFilterBounds ==
    start_year <= end_year =>
        \A k \in DOMAIN FilterRuns :
            InBounds(FilterRuns[k][2]) /\ KeepsWindow(FilterRuns[k][1], FilterRuns[k][2])

\* A run of Age Analysis over a window of several years that kept rows of the
\* age x gender table and left out a year of it.
C1_Witness ==
    /\ section = "Age Analysis" /\ status = "ok" /\ selected # <<>>
    /\ start_year < end_year
    /\ Len(out.men_data) > 0
    /\ \E i \in DOMAIN raw["suicides_age_gender"] :
           /\ raw["suicides_age_gender"][i]["year"] \in Years
           /\ raw["suicides_age_gender"][i]["year"] \notin start_year..end_year

RECURSIVE IsSubsequence(_, _, _, _)
\* The rows of a from the i-th on appear, in their order, among the rows of b
\* from the j-th on.
IsSubsequence(a, i, b, j) ==
    IF i > Len(a) THEN TRUE
    ELSE IF j > Len(b) THEN FALSE
    ELSE IF a[i] = b[j] THEN IsSubsequence(a, i + 1, b, j + 1)
    ELSE IsSubsequence(a, i, b, j + 1)

\* C2: filtering an already filtered table again with the same window gives
\* exactly the same rows, and the rows of a filtered table are in the relative
\* order they have in the input table.
C2_YearFilterIdempotentOrdered ==
    \A k \in DOMAIN FilterRuns :
        /\ YearFilter(FilterRuns[k][2], start_year, end_year) = FilterRuns[k][2]
        /\ IsSubsequence(FilterRuns[k][2], 1, FilterRuns[k][1], 1)

\* A run of Demographic Analysis on an attempts table whose rows come in
\* descending year order: the filter kept several rows, dropped others, and the
\* rows kept are still descending.
C2_Witness ==
    /\ section = "Demographic Analysis"
    /\ Len(out.attempts_filtered) >= 2
    /\ Len(out.attempts_filtered) < Len(raw["attempts_ethnic_groups"])
    /\ out.attempts_filtered[1]["year"] > out.attempts_filtered[Len(out.attempts_filtered)]["year"]

\* C3: after any sequence of interactions, every raw table held for the
\* session is the table its loader returned: same rows, same columns, same
\* values.
C3_RawTablesReadOnly ==
    /\ "load_data" \in cached \ failed => \A n \in DataTables : raw[n] = load_data(disk)[n]
    /\ "load_ethnic_data" \in cached \ failed =>
          \A n \in EthnicTables : raw[n] = load_ethnic_data(disk)[n]

\* Age Analysis has drawn its gender chart, after Demographic Analysis has
\* computed the shares, on an age x gender table one of whose years is text
\* that the numeric conversion of the copies turns into NaN.
C3_Witness ==
    /\ section = "Age Analysis" /\ status = "ok" /\ out.gender_df # <<>>
    /\ "load_ethnic_data" \in cached
    /\ \E i \in DOMAIN raw["suicides_age_gender"] : raw["suicides_age_gender"][i]["year"] = Junk

\* The gender chart of Age Analysis has been derived in the last run.
GenderShown == section = "Age Analysis" /\ status = "ok" /\ selected # <<>>

\* The rows of the age x gender table for year y and group g.
AgeRowsOf(y, g) == WhereEq(WhereEq(CoerceYear(raw["suicides_age_gender"]), "year", y), "group", g)

\* The 'Average Suicides' of the Men and of the Women row that gender_df holds
\* for the i-th selected age group.
MenOf(i) == out.gender_df[2 * i - 1]["Average Suicides"]

WomenOf(i) == out.gender_df[2 * i]["Average Suicides"]

\* Two floats are the same value, or both NaN, or the same infinity.
SameFloat(x, y) == IF IsFNum(x) /\ IsFNum(y) THEN FEq(x, y) ELSE x.tag = y.tag

\* C4 as stated: for every selected age group and every year of the window
\* that has both the 'all' and the 'men' row, the derived women value plus the
\* men value of that year equals the all value of that year.
C4_PerYearSubtraction ==
    GenderShown =>
        \A i \in DOMAIN selected : \A y \in start_year..end_year :
            (AgeRowsOf(y, "all") # <<>> /\ AgeRowsOf(y, "men") # <<>>) =>
                FEq(FAdd(WomenOf(i), OfCell(AgeRowsOf(y, "men")[1][selected[i]])),
                    OfCell(AgeRowsOf(y, "all")[1][selected[i]]))

\* C4, amended: gender_df holds for every selected age group one Men and one
\* Women row for the whole window; the Women value plus the window mean of the
\* 'men' rows equals the window mean of the 'all' rows (NaN when a mean does
\* not exist), so that a window of one year with both rows gives all - men.
C4_WindowAverageSubtraction ==
    GenderShown =>
        /\ Len(out.gender_df) = 2 * Len(selected)
        /\ \A i \in DOMAIN selected :
              /\ out.gender_df[2 * i - 1]["Age Group"] = selected[i]
              /\ out.gender_df[2 * i - 1]["Gender"] = "Men"
              /\ out.gender_df[2 * i]["Age Group"] = selected[i]
              /\ out.gender_df[2 * i]["Gender"] = "Women"
              /\ SameFloat(MenOf(i), Mean(out.men_data, selected[i]))
              /\ IF IsFNum(Mean(out.men_data, selected[i])) /\ IsFNum(Mean(out.all_data, selected[i]))
                 THEN FEq(FAdd(WomenOf(i), Mean(out.men_data, selected[i])),
                          Mean(out.all_data, selected[i]))
                 ELSE WomenOf(i) = FNaN
              /\ (start_year = end_year /\ Len(AgeRowsOf(start_year, "all")) = 1
                     /\ Len(AgeRowsOf(start_year, "men")) = 1) =>
                    FEq(WomenOf(i), Num(AgeRowsOf(start_year, "all")[1][selected[i]]
                                        - AgeRowsOf(start_year, "men")[1][selected[i]], 1))

\* The gender chart over a window of several years, each with both rows, for
\* an age group whose counts change from year to year.
C4_Witness ==
    /\ GenderShown /\ start_year < end_year
    /\ \E i \in DOMAIN selected : selected[i] = "15-17" /\ IsFNum(WomenOf(i))
    /\ \A y \in start_year..end_year : AgeRowsOf(y, "all") # <<>> /\ AgeRowsOf(y, "men") # <<>>

\* The years of the window that have both the 'all' and the 'men' row.
CompleteYears == {y \in start_year..end_year : AgeRowsOf(y, "all") # <<>> /\ AgeRowsOf(y, "men") # <<>>}

\* C5: a year of the window that lacks the 'all' or the 'men' row contributes
\* no numeric women value: the Women value of each selected age group is the
\* one the years with both rows give.
C5_MissingRowGivesNoValue ==
    GenderShown =>
        \A i \in DOMAIN selected :
            SameFloat(WomenOf(i),
                      FSub(Mean(SelectSeq(out.all_data, LAMBDA r : r["year"] \in CompleteYears), selected[i]),
                           Mean(SelectSeq(out.men_data, LAMBDA r : r["year"] \in CompleteYears), selected[i])))

\* The origin shares have been derived in the last run.
SharesShown == section = "Demographic Analysis" /\ status = "ok"

\* The three counts each row of combined_data is computed from: the rows of
\* the suicides table, then the 'all' rows of the attempts table.
OlimCounts ==
    [i \in DOMAIN raw["suicides_olim"] |->
        <<raw["suicides_olim"][i]["Ethiopia"], raw["suicides_olim"][i]["USSR"],
          raw["suicides_olim"][i]["Others"]>>]
    \o [i \in DOMAIN WhereEq(raw["attempts_olim"], "group", "all") |->
        <<WhereEq(raw["attempts_olim"], "group", "all")[i]["ethiopia_since_1980"],
          WhereEq(raw["attempts_olim"], "group", "all")[i]["ussr_since_1990"],
          WhereEq(raw["attempts_olim"], "group", "all")[i]["other_immigrants"]>>]

\* The counts v are numbers with a total that is not zero.
NonZeroTotal(v) == IsNum(v[1]) /\ IsNum(v[2]) /\ IsNum(v[3]) /\ v[1] + v[2] + v[3] # 0

\* The float x is the number value / total.
IsRatio(x, value, total) == IsFNum(x) /\ x.n * total = value * x.d

\* C6: for every row of the two immigrant-origin tables whose total
\* Ethiopia + USSR + Others is not zero, the three shares equal value / total
\* and sum to 1.
C6_SharesSumToOne ==
    SharesShown =>
        /\ Len(out.combined_data) = Len(OlimCounts)
        /\ \A i \in DOMAIN OlimCounts :
              NonZeroTotal(OlimCounts[i]) =>
                  /\ IsRatio(out.combined_data[i]["Ethiopia"], OlimCounts[i][1],
                             OlimCounts[i][1] + OlimCounts[i][2] + OlimCounts[i][3])
                  /\ IsRatio(out.combined_data[i]["USSR"], OlimCounts[i][2],
                             OlimCounts[i][1] + OlimCounts[i][2] + OlimCounts[i][3])
                  /\ IsRatio(out.combined_data[i]["Others"], OlimCounts[i][3],
                             OlimCounts[i][1] + OlimCounts[i][2] + OlimCounts[i][3])
                  /\ FEq(FAdd(FAdd(out.combined_data[i]["Ethiopia"], out.combined_data[i]["USSR"]),
                              out.combined_data[i]["Others"]), Num(1, 1))

\* The shares of a row of counts 10, 30, 10 are 0.2, 0.6, 0.2, next to a row
\* with other counts.
C6_Witness ==
    /\ SharesShown
    /\ \E i \in DOMAIN OlimCounts :
          /\ OlimCounts[i] = <<10, 30, 10>>
          /\ FEq(out.combined_data[i]["Ethiopia"], Num(1, 5))
          /\ FEq(out.combined_data[i]["USSR"], Num(3, 5))
          /\ FEq(out.combined_data[i]["Others"], Num(1, 5))
    /\ \E i \in DOMAIN OlimCounts : OlimCounts[i] = <<3, 1, 0>>

\* C7: for every row of the immigrant-origin tables whose total is zero, or
\* whose counts are missing after the numeric conversion, no NaN and no Inf
\* share of that row reaches the melt (combined_data) or its long form.
C7_NoNaNReachesMelt ==
    SharesShown =>
        /\ \A i \in DOMAIN OlimCounts :
              ~NonZeroTotal(OlimCounts[i]) =>
                  /\ IsFNum(out.combined_data[i]["Ethiopia"])
                  /\ IsFNum(out.combined_data[i]["USSR"])
                  /\ IsFNum(out.combined_data[i]["Others"])
        /\ \A j \in DOMAIN out.combined_data_long : IsFNum(out.combined_data_long[j]["Percentage"])

\* The filtered gender table has no row for the year before its latest year.
PriorYearAbsent ==
    /\ section = "Overview"
    /\ \A i \in DOMAIN filtered_gender :
          filtered_gender[i]["year"] # ColMax(filtered_gender, "year") - 1

\* C8: when the row of latest_year - 1 is absent from the filtered gender
\* table, the run does not abort: the four KPIs and the two trend charts are
\* produced, and the delta of each KPI is undefined, not a number.
C8_AbsentPriorYearDoesNotAbort ==
    PriorYearAbsent =>
        /\ status = "ok"
        /\ Len(out.kpis) = 4
        /\ \A k \in DOMAIN out.kpis : ~IsFNum(out.kpis[k].delta)
        /\ out.charts = <<"gender_rates", "gender_numbers">>

\* C9: every year of either filtered monthly table has a row in the combined
\* yearly table.
C9_OuterJoinOnYear ==
    (section = "Time Trends" /\ status = "ok") =>
        \A y \in SliderYears(out.suicides_month_filtered) \cup SliderYears(out.attempts_month_filtered) :
            \E i \in DOMAIN out.yearly_data : out.yearly_data[i]["year"] = y

\* The long row `l` is the cell of the wide row `w` in category `cat`, the
\* year going through Year.
IsLongRowOf(l, w, cat, var_name, value_name, Year(_)) ==
    /\ l["year"] = Year(w["year"])
    /\ l[var_name] = cat
    /\ l[value_name] = w[cat]

\* The long table goes through the wide rows in order, and for each wide row
\* through the categories in order.
RowMajor(long, wide, cats, var_name, value_name, Year(_)) ==
    /\ Len(long) = Len(wide) * Len(cats)
    /\ \A i \in DOMAIN wide : \A k \in DOMAIN cats :
          IsLongRowOf(long[(i - 1) * Len(cats) + k], wide[i], cats[k], var_name, value_name, Year)

\* The long table goes through the categories in order, and for each category
\* through the wide rows in order.
CategoryMajor(long, wide, cats, var_name, value_name, Year(_)) ==
    /\ Len(long) = Len(wide) * Len(cats)
    /\ \A k \in DOMAIN cats : \A i \in DOMAIN wide :
          IsLongRowOf(long[(k - 1) * Len(wide) + i], wide[i], cats[k], var_name, value_name, Year)

SameYear(y) == y

\* C10 as stated: the long rows are grouped by the row order of the wide table,
\* and within each wide row the categories are in the caller's order.
C10_RowMajorOrder ==
    /\ SharesShown =>
          RowMajor(out.combined_data_long, out.combined_data, <<"Ethiopia", "USSR", "Others">>,
                   "Origin", "Percentage", StrOf)
    /\ (section = "Time Trends" /\ status = "ok") =>
          RowMajor(out.yearly_data_long, out.yearly_data, <<"Suicides", "Attempts">>,
                   "Measure", "Count", SameYear)

\* C10, amended: the long rows are grouped by category, the categories in the
\* caller's order (Ethiopia, USSR, Others; Suicides, Attempts), and within each
\* category the rows are in the row order of the wide table.
C10_CategoryMajorOrder ==
    /\ SharesShown =>
          CategoryMajor(out.combined_data_long, out.combined_data, <<"Ethiopia", "USSR", "Others">>,
                        "Origin", "Percentage", StrOf)
    /\ (section = "Time Trends" /\ status = "ok") =>
          CategoryMajor(out.yearly_data_long, out.yearly_data, <<"Suicides", "Attempts">>,
                        "Measure", "Count", SameYear)

\* Time Trends has melted a yearly table of several years.
C10_Witness ==
    /\ section = "Time Trends" /\ status = "ok"
    /\ Len(out.yearly_data) >= 2
    /\ Len(out.yearly_data_long) = 2 * Len(out.yearly_data)

\* The long row l carries the id columns of the wide row w, the year going
\* through Year.
SameIds(l, w, ids, Year(_)) == \A c \in ids : l[c] = (IF c = "year" THEN Year(w[c]) ELSE w[c])

\* The long table has one row per (wide row, category), and looking a wide
\* row's id columns and a category up in it finds exactly one row, which holds
\* the wide row's value: widening the long table again gives the wide table.
RoundTrip(long, wide, ids, cats, var_name, value_name, Year(_)) ==
    /\ Len(long) = Len(wide) * Len(cats)
    /\ \A i \in DOMAIN wide : \A k \in DOMAIN cats :
          /\ Cardinality({j \in DOMAIN long :
                             SameIds(long[j], wide[i], ids, Year) /\ long[j][var_name] = cats[k]}) = 1
          /\ \A j \in DOMAIN long :
                (SameIds(long[j], wide[i], ids, Year) /\ long[j][var_name] = cats[k]) =>
                    long[j][value_name] = wide[i][cats[k]]

\* C11: the long table of each melt has exactly one row per (id columns,
\* category) pair, and widening it again on the id columns reproduces every
\* value of the wide table, also where the two series of the origin shares
\* hold the same year.
C11_ReshapeRoundTrip ==
    /\ SharesShown =>
          RoundTrip(out.combined_data_long, out.combined_data, {"year", "data_type"},
                    <<"Ethiopia", "USSR", "Others">>, "Origin", "Percentage", StrOf)
    /\ (section = "Time Trends" /\ status = "ok") =>
          RoundTrip(out.yearly_data_long, out.yearly_data, {"year"},
                    <<"Suicides", "Attempts">>, "Measure", "Count", SameYear)

\* The origin shares have been melted from a wide table in which a completed
\* suicides row and an attempts row hold the same year.
C11_Witness ==
    /\ SharesShown
    /\ \E i \in DOMAIN out.combined_data : \E j \in DOMAIN out.combined_data :
          /\ out.combined_data[i]["year"] = out.combined_data[j]["year"]
          /\ out.combined_data[i]["data_type"] = "Completed Suicides"
          /\ out.combined_data[j]["data_type"] = "Attempts"
    /\ Len(out.combined_data_long) > 3

\* C12: every row of every table handed to a chart in the last run has its
\* year inside the window: the gender table of the Overview, the tables of the
\* age charts, the ethnic trends, the origin shares, the yearly trends.
C12_ChartsGetWindowOnly ==
    /\ section = "Overview" => InBounds(filtered_gender)
    /\ (section = "Age Analysis" /\ status = "ok") => InBounds(out.age_gender_data)
    /\ GenderShown =>
          InBounds(out.all_years_data) /\ InBounds(out.attempts_data)
              /\ InBounds(out.men_data) /\ InBounds(out.all_data)
    /\ SharesShown =>
          /\ InBounds(out.chart_data)
          /\ \A j \in DOMAIN out.combined_data_long :
                \E y \in start_year..end_year : out.combined_data_long[j]["year"] = StrOf(y)
    /\ (section = "Time Trends" /\ status = "ok") => InBounds(out.filtered_data)

\* The rows of the age x gender table in the window with group 'all'.
WindowAllRows ==
    SelectSeq(CoerceYear(raw["suicides_age_gender"]),
              LAMBDA r : r["year"] \in start_year..end_year /\ r["group"] = "all")

\* The age column k has the greatest mean over WindowAllRows, and every column
\* declared before it has a smaller one.
IsFirstGreatest(k) ==
    /\ IsFNum(Mean(WindowAllRows, AgeCols[k]))
    /\ \A j \in DOMAIN AgeCols : ~FLt(Mean(WindowAllRows, AgeCols[k]), Mean(WindowAllRows, AgeCols[j]))
    /\ \A j \in 1..(k - 1) : FLt(Mean(WindowAllRows, AgeCols[j]), Mean(WindowAllRows, AgeCols[k]))

\* C13: the default age group of Age Analysis is the age column whose mean over
\* the rows of the window with group 'all' is greatest, and the first in the
\* declared order among the columns that share the greatest mean.
C13_DefaultGroupIsFirstGreatest ==
    (section = "Age Analysis" /\ status = "ok") =>
        \E k \in DOMAIN AgeCols : AgeCols[k] = out.default_group /\ IsFirstGreatest(k)

\* Age Analysis over a window in which two age columns share the greatest mean.
C13_Witness ==
    /\ section = "Age Analysis" /\ status = "ok"
    /\ out.default_group = "<14"
    /\ FEq(Mean(WindowAllRows, "<14"), Mean(WindowAllRows, "15-17"))
    /\ start_year < end_year

\* C14: when the window selects no 'all' row of the age x gender table, the
\* run of Age Analysis does not fail, and the period average of every age
\* group is surfaced as no data (NaN), not as a number.
C14_EmptyWindowIsNoData ==
    (section = "Age Analysis" /\ WindowAllRows = <<>>) =>
        /\ status = "ok"
        /\ Len(out.avg_by_age_df) = Len(AgeCols)
        /\ \A i \in DOMAIN out.avg_by_age_df : ~IsFNum(out.avg_by_age_df[i]["Average Suicides"])

\* C15: a selected age group whose mapped column is absent from the attempts
\* table has no 'Suicide Attempts' row in the attempts-vs-suicides comparison.
C15_UnmappedGroupExcluded ==
    GenderShown =>
        \A i \in DOMAIN selected :
            AttemptColOf(selected[i]) \notin ColumnsOf(raw["attempts_age_gender"]) =>
                \A j \in DOMAIN out.comparison_df :
                    ~(out.comparison_df[j]["Age Group"] = selected[i]
                      /\ out.comparison_df[j]["Type"] = "Suicide Attempts")

\* The sum of the twelve month cells of one row of a monthly table.
TwelveMonths(r) ==
    r["jan"] + r["feb"] + r["mar"] + r["apr"] + r["may"] + r["jun"]
        + r["jul"] + r["aug"] + r["sep"] + r["oct"] + r["nov"] + r["dec"]

\* The yearly table has, row for row, the year of the filtered monthly table
\* and the sum of that row's twelve months under `name`.
IsYearlyOf(yearly, monthly, name) ==
    /\ Len(yearly) = Len(monthly)
    /\ \A i \in DOMAIN monthly :
          /\ DOMAIN yearly[i] = {"year", name}
          /\ yearly[i]["year"] = monthly[i]["year"]
          /\ yearly[i][name] = TwelveMonths(monthly[i])

\* C16: for every row of the filtered monthly suicides and attempts tables the
\* yearly total is the sum of that row's twelve month columns jan .. dec, and
\* of nothing else.
C16_YearlyTotalIsSumOfMonths ==
    (section = "Time Trends" /\ status = "ok") =>
        /\ IsYearlyOf(out.suicides_yearly, out.suicides_month_filtered, "Suicides")
        /\ IsYearlyOf(out.attempts_yearly, out.attempts_month_filtered, "Attempts")

\* Time Trends over several years: a suicides row of twelve months of 5 has
\* the total 60, and the attempts rows have months that differ.
C16_Witness ==
    /\ section = "Time Trends" /\ status = "ok"
    /\ Len(out.attempts_yearly) >= 2
    /\ \E i \in DOMAIN out.suicides_month_filtered :
          /\ \A k \in DOMAIN Months : out.suicides_month_filtered[i][Months[k]] = 5
          /\ out.suicides_yearly[i]["Suicides"] = 60
    /\ \E i \in DOMAIN out.attempts_month_filtered :
          out.attempts_month_filtered[i]["jan"] # out.attempts_month_filtered[i]["dec"]

\* The table the ethnic trends chart of the last run is drawn from lacks the
\* 'ethnicity' or the 'group' column.
EthnicColumnMissing ==
    /\ section = "Demographic Analysis"
    /\ ~ReadFails(LoadEthnicFiles, disk)
    /\ ~({"ethnicity", "group"} \subseteq
            ColumnsOf(raw[IF chart_type = "Completed Suicides" THEN "suicides_ethnic_groups"
                          ELSE "attempts_ethnic_groups"]))

\* The immigrants' attempts table lacks the 'group' column.
OlimGroupMissing ==
    /\ section = "Demographic Analysis"
    /\ ~ReadFails(LoadEthnicFiles, disk)
    /\ "group" \notin ColumnsOf(raw["attempts_olim"])

\* A monthly file lacks one of the twelve month columns.
MonthColumnMissing ==
    /\ section = "Time Trends"
    /\ ~ReadFails(MonthlyFiles, disk)
    /\ \E f \in {"Suicides - Month&Year", "Attempts - Month&Year"} :
          disk[f] # <<>> /\ ~(Range(FileMonths) \subseteq DOMAIN disk[f][1])

\* C17 as stated: when a required column is absent (the 'group' or 'ethnicity'
\* column of the ethnic-group table, a month column of a monthly table), the
\* run stops with a failure and produces no chart after it.
C17_MissingColumnAborts ==
    /\ EthnicColumnMissing => (status # "ok" /\ out.charts = <<>>)
    /\ MonthColumnMissing => (status # "ok" /\ out.charts = <<>>)

\* C17, amended: a month column absent from a monthly table, or the 'group'
\* column absent from the immigrants' attempts table, stops the run with a
\* KeyError, and no chart or derived table is produced after it; the 'group' or
\* 'ethnicity' column absent from the ethnic-group table only replaces the
\* ethnic trends chart by a warning, and the run goes on to the origin shares.
C17_MissingColumnAbortsOrWarns ==
    /\ MonthColumnMissing =>
          /\ status = "KeyError" /\ out.charts = <<>>
          /\ out.suicides_yearly = <<>> /\ out.attempts_yearly = <<>>
          /\ out.yearly_data = <<>> /\ out.yearly_data_long = <<>> /\ out.filtered_data = <<>>
    /\ (section = "Time Trends" /\ ~ReadFails(MonthlyFiles, disk) /\ ~MonthColumnMissing) =>
          status \in {"ok", "TypeError"}
    /\ (section = "Demographic Analysis" /\ ~ReadFails(LoadEthnicFiles, disk)
           /\ ~YearIsText(raw["attempts_ethnic_groups"])) =>
          /\ out.charts[1] = (IF EthnicColumnMissing THEN "warning" ELSE "ethnic_trends")
          /\ IF OlimGroupMissing
             THEN /\ status = "KeyError" /\ Len(out.charts) = 1
                  /\ out.combined_data = <<>> /\ out.combined_data_long = <<>>
             ELSE status = "ok" /\ out.charts[2] = "origin_shares"

\* Demographic Analysis on an ethnic-group table without 'group': the warning,
\* then the origin shares.
C17_Witness ==
    /\ EthnicColumnMissing
    /\ status = "ok"
    /\ out.charts = <<"warning", "origin_shares">>
    /\ out.combined_data_long # <<>>

\* C18: over any sequence of interactions, each CSV file is read at most once.
C18_EachFileReadAtMostOnce == \A f \in FileNames : reads[f] \in {"never", "once"}

\* The loader whose file is unreadable has been called.
DataLoadFailed == "load_data" \in cached /\ ReadFails(LoadDataFiles, disk)

EthnicLoadFailed == "load_ethnic_data" \in cached /\ ReadFails(LoadEthnicFiles, disk)

\* The last run was display_time_trends on an unreadable monthly file.
MonthlyReadFailed ==
    section = "Time Trends" /\ ~DataLoadFailed /\ ReadFails(MonthlyFiles, disk)

\* C19: when a read of a source file fails, the loader returns None and holds
\* none of its tables, not even those read before the failure; the run ends
\* with the error message and no widget, filter, derived table or chart of
\* the failed table set.
C19_LoadFailureIsFatal ==
    /\ DataLoadFailed =>
          /\ status = "LoadError" /\ "load_data" \in failed
          /\ \A n \in RawNames : raw[n] = <<>>
          /\ section = "none" /\ filtered_gender = <<>> /\ out = EmptyOut
    /\ EthnicLoadFailed =>
          /\ "load_ethnic_data" \in failed
          /\ \A n \in EthnicTables : raw[n] = <<>>
          /\ section = "Demographic Analysis" => (status = "LoadError" /\ out = EmptyOut)
    /\ MonthlyReadFailed => (status = "LoadError" /\ out = EmptyOut)

\* load_data() has failed on its third or fourth file, after it read the first.
C19_Witness ==
    /\ DataLoadFailed
    /\ status = "LoadError"
    /\ reads["Suicides per Gender"] = "once"
    /\ disk["Suicides per Gender"] # <<>>

\* The tables that are filtered by year as they were read, in the last run.
FilteredAsRead ==
    IF section = "Demographic Analysis" /\ ~ReadFails(LoadEthnicFiles, disk)
    THEN <<raw["attempts_ethnic_groups"]>>
    ELSE IF section = "Time Trends" /\ ~ReadFails(MonthlyFiles, disk)
    THEN <<LowerColumns(disk["Suicides - Month&Year"]), LowerColumns(disk["Attempts - Month&Year"])>>
    ELSE <<>>

\* C20: a row whose year is text never makes the year filter fail, and is in
\* no filtered table.
C20_TextYearIsDroppedNotFatal ==
    /\ \A i \in DOMAIN FilteredAsRead : YearIsText(FilteredAsRead[i]) => status # "TypeError"
    /\ \A i \in DOMAIN FilterRuns : ~YearIsText(FilterRuns[i][2])

\* The run kept and the last run had the same widgets' values.
SameParameters ==
    /\ earlier # NoRun
    /\ earlier.section = section
    /\ earlier.start_year = start_year /\ earlier.end_year = end_year
    /\ earlier.selected = selected
    /\ earlier.chart_type = chart_type
    /\ earlier.measures = measures

\* C21: two runs of one session with the same section, year window, age
\* groups, data type and measures end the same way and derive the same
\* structures, whatever runs there were between them.
C21_HistoryIndependence ==
    SameParameters =>
        /\ earlier.status = status
        /\ earlier.filtered_gender = filtered_gender
        /\ earlier.out = out

\* Age Analysis has run twice with the same age groups and window, with other
\* runs between the two (every interaction changes a widget), in a session
\* in which Demographic Analysis has computed the shares.
C21_Witness ==
    /\ SameParameters
    /\ section = "Age Analysis" /\ status = "ok" /\ selected # <<>>
    /\ cached = {"load_data", "load_ethnic_data"}
    /\ out.gender_df # <<>>

\* The table t has rows, and none of them has its year in the window of the
\* last run.
WindowMisses(t) ==
    /\ t # <<>>
    /\ \A i \in DOMAIN t : ToNumeric(t[i]["year"]) \notin start_year..end_year

\* C22: when the window holds no year of the table that the section filters
\* (the age x gender table, an ethnic-group table, a monthly table), the filter
\* gives an empty table and the run ends without an exception.
C22_WindowOutsideTableIsNotAnError ==
    /\ (section = "Age Analysis" /\ WindowMisses(raw["suicides_age_gender"])) =>
          (status = "ok" /\ out.age_gender_data = <<>>)
    /\ (section = "Demographic Analysis" /\ ~ReadFails(LoadEthnicFiles, disk)
           /\ WindowMisses(raw["suicides_ethnic_groups"])) =>
          (status = "ok" /\ out.suicides_filtered = <<>>)
    /\ (section = "Time Trends" /\ ~ReadFails(MonthlyFiles, disk)
           /\ WindowMisses(LowerColumns(disk["Suicides - Month&Year"]))) =>
          (status = "ok" /\ out.suicides_month_filtered = <<>>)

\* C23: in every run that reaches a display function, start_year <= end_year,
\* both are years of the gender table, and the gender table filtered to the
\* window has a row.
C23_WindowIsWellFormed ==
    section # "none" =>
        /\ start_year <= end_year
        /\ \A y \in {start_year, end_year} :
              \E i \in DOMAIN raw["suicides_gender"] : raw["suicides_gender"][i]["year"] = y
        /\ filtered_gender # <<>>

\* Overview on a gender table that lacks one of the years between its first
\* and its last, with the slider at one year.
C23_Witness ==
    /\ section = "Overview"
    /\ start_year = end_year
    /\ Len(filtered_gender) = 1
    /\ \E y \in Years :
          /\ ColMin(raw["suicides_gender"], "year") < y
          /\ y < ColMax(raw["suicides_gender"], "year")
          /\ \A i \in DOMAIN raw["suicides_gender"] : raw["suicides_gender"][i]["year"] # y

\* The rows 2i-1 and 2i of t are those of the i-th selected age group, with
\* the two values of the column c in this order.
TwoRowsPerGroup(t, c, first, second) ==
    /\ Len(t) = 2 * Len(selected)
    /\ \A i \in DOMAIN selected :
          /\ t[2 * i - 1]["Age Group"] = selected[i] /\ t[2 * i - 1][c] = first
          /\ t[2 * i]["Age Group"] = selected[i] /\ t[2 * i][c] = second

\* C24: Age Analysis with no age group selected derives no time series, no
\* attempts-vs-suicides comparison and no gender comparison, and shows the
\* prompt; with age groups selected, the comparison and the gender table each
\* hold two rows per selected age group, in the order of the selection.
C24_EmptySelectionPromptsElseTwoRows ==
    (section = "Age Analysis" /\ status = "ok") =>
        IF selected = <<>>
        THEN /\ out.all_years_data = <<>> /\ out.attempts_data = <<>>
             /\ out.comparison_df = <<>> /\ out.gender_df = <<>>
             /\ out.charts = <<"avg_by_age", "prompt">>
        ELSE /\ TwoRowsPerGroup(out.comparison_df, "Type", "Completed Suicides", "Suicide Attempts")
             /\ TwoRowsPerGroup(out.gender_df, "Gender", "Men", "Women")
             /\ out.charts = <<"avg_by_age", "fig_time", "fig_comparison", "fig_gender">>

\* Age Analysis after the user has removed every age group: the averages by
\* age group and the prompt.
C24_Witness ==
    /\ section = "Age Analysis" /\ status = "ok"
    /\ selected = <<>>
    /\ out.avg_by_age_df # <<>>
    /\ out.charts = <<"avg_by_age", "prompt">>

====
